---- MODULE Spec2Model ----
(***************************************************************************)
(* Model of the NL2SQL demo: NL2SQLDemo (src/src/nl2sql.py) and the demo   *)
(* script (src/demo.py).                                                   *)
(*                                                                         *)
(* Questions and SQL texts are strings; substring tests, lower() and       *)
(* strip() are computed character by character as Python computes them     *)
(* (ASCII letters only).                                                   *)
(***************************************************************************)
EXTENDS Integers, Sequences, FiniteSets, TLC

VARIABLES
    pc,             \* position of the caller driving the object
    question,       \* natural_query of the current generate_sql call
    sql,            \* first component of generate_sql's return value
    explanation,    \* second component of generate_sql's return value
    returned,       \* SQL texts (ticker abstracted) returned so far
    result,         \* DataFrame passed to visualize: columns, row count
    other,          \* a second DataFrame with the same columns
    chart,          \* what visualize did with result
    chart_other,    \* what visualize did with other
    query_history,  \* NL2SQLDemo.query_history
    calls           \* log of the ask calls made so far, in call order

vars == <<pc, question, sql, explanation, returned, result, other, chart,
          chart_other, query_history, calls>>

(***************************************************************************)
(* Bounds                                                                  *)
(***************************************************************************)
MaxWords == 2

(***************************************************************************)
(* Python string primitives                                                *)
(***************************************************************************)
\* str.lower() on one character
LowerChar(c) ==
    CASE c = "A" -> "a" [] c = "B" -> "b" [] c = "C" -> "c" [] c = "D" -> "d"
      [] c = "E" -> "e" [] c = "F" -> "f" [] c = "G" -> "g" [] c = "H" -> "h"
      [] c = "I" -> "i" [] c = "J" -> "j" [] c = "K" -> "k" [] c = "L" -> "l"
      [] c = "M" -> "m" [] c = "N" -> "n" [] c = "O" -> "o" [] c = "P" -> "p"
      [] c = "Q" -> "q" [] c = "R" -> "r" [] c = "S" -> "s" [] c = "T" -> "t"
      [] c = "U" -> "u" [] c = "V" -> "v" [] c = "W" -> "w" [] c = "X" -> "x"
      [] c = "Y" -> "y" [] c = "Z" -> "z" [] OTHER -> c

\* str.lower(): every character lowered, halving the string to keep the
\* recursion shallow
RECURSIVE Lower(_)
Lower(s) ==
    IF Len(s) = 0 THEN ""
    ELSE IF Len(s) = 1 THEN LowerChar(s)
    ELSE LET half == Len(s) \div 2 IN
         Lower(SubSeq(s, 1, half)) \o Lower(SubSeq(s, half + 1, Len(s)))

\* the `in` operator on strings: sub occurs in s
Contains(s, sub) ==
    \E i \in 1..(Len(s) - Len(sub) + 1) : SubSeq(s, i, i + Len(sub) - 1) = sub

Whitespace == {" ", "\n", "\t", "\r"}

\* str.strip()
RECURSIVE LStrip(_)
LStrip(s) ==
    IF Len(s) > 0 /\ SubSeq(s, 1, 1) \in Whitespace
    THEN LStrip(SubSeq(s, 2, Len(s)))
    ELSE s

RECURSIVE RStrip(_)
RStrip(s) ==
    IF Len(s) > 0 /\ SubSeq(s, Len(s), Len(s)) \in Whitespace
    THEN RStrip(SubSeq(s, 1, Len(s) - 1))
    ELSE s

Strip(s) == RStrip(LStrip(s))

(***************************************************************************)
(* The SQL texts of generate_sql                                           *)
(***************************************************************************)
MovingAverageSql(ticker) ==
    Strip("\n                SELECT date, close,"
       \o "\n                    AVG(close) OVER (ORDER BY date ROWS 6 PRECEDING) as ma_7,"
       \o "\n                    AVG(close) OVER (ORDER BY date ROWS 29 PRECEDING) as ma_30"
       \o "\n                FROM stock_prices "
       \o "\n                WHERE ticker = '" \o ticker \o "' "
       \o "\n                ORDER BY date"
       \o "\n            ")

MovingAverageExplanation(ticker) ==
    "7-day and 30-day moving averages for " \o ticker

DailyReturnsSql ==
    Strip("\n                SELECT ticker, date, close,"
       \o "\n                    ROUND((close - LAG(close) OVER (PARTITION BY ticker ORDER BY date)) / "
       \o "\n                          LAG(close) OVER (PARTITION BY ticker ORDER BY date) * 100, 2) as return_pct"
       \o "\n                FROM stock_prices "
       \o "\n                ORDER BY date DESC "
       \o "\n                LIMIT 30"
       \o "\n            ")

RiskMetricsSql ==
    Strip("\n                WITH daily_returns AS ("
       \o "\n                    SELECT ticker, "
       \o "\n                        (close - LAG(close) OVER (PARTITION BY ticker ORDER BY date)) / "
       \o "\n                        LAG(close) OVER (PARTITION BY ticker ORDER BY date) as ret"
       \o "\n                    FROM stock_prices"
       \o "\n                )"
       \o "\n                SELECT ticker,"
       \o "\n                    ROUND(MIN(ret)*100, 2) as worst_day_pct,"
       \o "\n                    ROUND(AVG(CASE WHEN ret<0 THEN ret END)*100, 2) as avg_loss_pct,"
       \o "\n                    ROUND(COUNT(CASE WHEN ret<0 THEN 1 END)*100.0/COUNT(*), 1) as down_days_pct"
       \o "\n                FROM daily_returns "
       \o "\n                WHERE ret IS NOT NULL "
       \o "\n                GROUP BY ticker"
       \o "\n            ")

VolatilitySql ==
    Strip("\n                SELECT ticker, "
       \o "\n                    ROUND(AVG((high-low)/close*100), 2) as avg_volatility_pct"
       \o "\n                FROM stock_prices "
       \o "\n                GROUP BY ticker "
       \o "\n                ORDER BY avg_volatility_pct DESC"
       \o "\n            ")

AveragePriceSql(ticker) ==
    "SELECT AVG(close) as avg_price FROM stock_prices WHERE ticker = '"
        \o ticker \o "'"

AveragePriceExplanation(ticker) == "Average closing price for " \o ticker

AveragePriceAllSql ==
    "SELECT ticker, AVG(close) as avg_price FROM stock_prices GROUP BY ticker"

RecentSql == "SELECT * FROM stock_prices ORDER BY date DESC LIMIT 10"

DefaultSql == "SELECT * FROM stock_prices LIMIT 5"

(***************************************************************************)
(* NL2SQLDemo._extract_ticker                                              *)
(***************************************************************************)
\* Variant: no default symbol, an unmatched query yields the empty string.
_extract_ticker_no_default(query) ==
    LET q == Lower(query) IN
    IF Contains(q, "apple") \/ Contains(q, "aapl") THEN "AAPL"
    ELSE IF Contains(q, "microsoft") \/ Contains(q, "msft") THEN "MSFT"
    ELSE IF Contains(q, "nvidia") \/ Contains(q, "nvda") THEN "NVDA"
    ELSE ""

\* Variant: an unmatched query is itself taken as the symbol.
_extract_ticker_echo(query) ==
    LET q == Lower(query) IN
    IF Contains(q, "apple") \/ Contains(q, "aapl") THEN "AAPL"
    ELSE IF Contains(q, "microsoft") \/ Contains(q, "msft") THEN "MSFT"
    ELSE IF Contains(q, "nvidia") \/ Contains(q, "nvda") THEN "NVDA"
    ELSE q

_extract_ticker(query) ==
    LET q == Lower(query) IN
    IF Contains(q, "apple") \/ Contains(q, "aapl") THEN "AAPL"
    ELSE IF Contains(q, "microsoft") \/ Contains(q, "msft") THEN "MSFT"
    ELSE IF Contains(q, "nvidia") \/ Contains(q, "nvda") THEN "NVDA"
    ELSE "AAPL"

\* truth value of a str in `if ticker:`
Truthy(s) == Len(s) > 0

(***************************************************************************)
(* NL2SQLDemo.generate_sql                                                 *)
(***************************************************************************)
\* Variant: the average-price test comes before the moving-average test.
generate_sql_average_first(natural_query) ==
    LET q == Lower(natural_query) IN
    IF Contains(q, "average") \/ Contains(q, "avg") THEN
        LET ticker == _extract_ticker(q) IN
        [sql |-> AveragePriceSql(ticker),
         explanation |-> AveragePriceExplanation(ticker)]
    ELSE IF Contains(q, "moving average") \/ Contains(q, "trend") THEN
        LET ticker == _extract_ticker(q) IN
        [sql |-> MovingAverageSql(ticker),
         explanation |-> MovingAverageExplanation(ticker)]
    ELSE IF Contains(q, "return") \/ Contains(q, "daily change") THEN
        [sql |-> DailyReturnsSql,
         explanation |-> "Daily returns for all stocks"]
    ELSE IF Contains(q, "risk") \/ Contains(q, "drawdown") \/ Contains(q, "worst") THEN
        [sql |-> RiskMetricsSql,
         explanation |-> "Risk metrics: worst day, avg loss, down day frequency"]
    ELSE IF Contains(q, "volatile") \/ Contains(q, "volatility") THEN
        [sql |-> VolatilitySql,
         explanation |-> "Average daily volatility by stock"]
    ELSE IF Contains(q, "latest") \/ Contains(q, "recent") THEN
        [sql |-> RecentSql, explanation |-> "Most recent 10 trading days"]
    ELSE
        [sql |-> DefaultSql, explanation |-> "Sample data"]

\* Variant: the recent-data test knows 'latest' only.
generate_sql_latest_only(natural_query) ==
    LET q == Lower(natural_query) IN
    IF Contains(q, "moving average") \/ Contains(q, "trend") THEN
        LET ticker == _extract_ticker(q) IN
        [sql |-> MovingAverageSql(ticker),
         explanation |-> MovingAverageExplanation(ticker)]
    ELSE IF Contains(q, "return") \/ Contains(q, "daily change") THEN
        [sql |-> DailyReturnsSql,
         explanation |-> "Daily returns for all stocks"]
    ELSE IF Contains(q, "risk") \/ Contains(q, "drawdown") \/ Contains(q, "worst") THEN
        [sql |-> RiskMetricsSql,
         explanation |-> "Risk metrics: worst day, avg loss, down day frequency"]
    ELSE IF Contains(q, "volatile") \/ Contains(q, "volatility") THEN
        [sql |-> VolatilitySql,
         explanation |-> "Average daily volatility by stock"]
    ELSE IF Contains(q, "average") \/ Contains(q, "avg") THEN
        LET ticker == _extract_ticker(q) IN
        IF Truthy(ticker) THEN
            [sql |-> AveragePriceSql(ticker),
             explanation |-> AveragePriceExplanation(ticker)]
        ELSE
            [sql |-> AveragePriceAllSql,
             explanation |-> "Average closing price for all stocks"]
    ELSE IF Contains(q, "latest") THEN
        [sql |-> RecentSql, explanation |-> "Most recent 10 trading days"]
    ELSE
        [sql |-> DefaultSql, explanation |-> "Sample data"]

generate_sql(natural_query) ==
    LET q == Lower(natural_query) IN
    IF Contains(q, "moving average") \/ Contains(q, "trend") THEN
        LET ticker == _extract_ticker(q) IN
        [sql |-> MovingAverageSql(ticker),
         explanation |-> MovingAverageExplanation(ticker)]
    ELSE IF Contains(q, "return") \/ Contains(q, "daily change") THEN
        [sql |-> DailyReturnsSql,
         explanation |-> "Daily returns for all stocks"]
    ELSE IF Contains(q, "risk") \/ Contains(q, "drawdown") \/ Contains(q, "worst") THEN
        [sql |-> RiskMetricsSql,
         explanation |-> "Risk metrics: worst day, avg loss, down day frequency"]
    ELSE IF Contains(q, "volatile") \/ Contains(q, "volatility") THEN
        [sql |-> VolatilitySql,
         explanation |-> "Average daily volatility by stock"]
    ELSE IF Contains(q, "average") \/ Contains(q, "avg") THEN
        LET ticker == _extract_ticker(q) IN
        IF Truthy(ticker) THEN
            [sql |-> AveragePriceSql(ticker),
             explanation |-> AveragePriceExplanation(ticker)]
        ELSE
            [sql |-> AveragePriceAllSql,
             explanation |-> "Average closing price for all stocks"]
    ELSE IF Contains(q, "latest") \/ Contains(q, "recent") THEN
        [sql |-> RecentSql, explanation |-> "Most recent 10 trading days"]
    ELSE
        [sql |-> DefaultSql, explanation |-> "Sample data"]

(***************************************************************************)
(* Question strings fed to generate_sql: up to MaxWords words of the       *)
(* vocabulary joined by single spaces (the empty string included).         *)
(***************************************************************************)
Vocabulary ==
    {"Moving Averages", "trend", "Returns", "daily change",
     "risk", "drawdown", "worst", "volatile", "Volatility",
     "average", "AVG", "latest", "recent",
     "Apple", "aapl", "Microsoft", "MSFT", "Nvidia", "nvda",
     "price", "most", "Tesla", "'; DROP TABLE x --"}

RECURSIVE QuestionsUpTo(_)
QuestionsUpTo(n) ==
    IF n = 0 THEN {""}
    ELSE LET shorter == QuestionsUpTo(n - 1) IN
         shorter \cup {IF q = "" THEN w ELSE q \o " " \o w :
                          q \in shorter, w \in Vocabulary}

Questions == QuestionsUpTo(MaxWords)

\* generate_sql tabulated over the questions, computed once
GenerateSqlTable == [q \in Questions |-> generate_sql(q)]

NoResult == [columns |-> {}, rows |-> 0, plottable |-> TRUE]
NoChart == [layout |-> "none", raised |-> FALSE]

(***************************************************************************)
(* SpecGenerate: one call of generate_sql on an arbitrary question         *)
(***************************************************************************)
InitCommon ==
    /\ sql = ""
    /\ explanation = ""
    /\ returned = {}
    /\ result = NoResult
    /\ other = NoResult
    /\ chart = NoChart
    /\ chart_other = NoChart
    /\ query_history = <<>>
    /\ calls = <<>>

InitGenerate ==
    /\ pc = "call"
    /\ question \in Questions
    /\ InitCommon

GenerateSql ==
    /\ pc = "call"
    /\ LET r == GenerateSqlTable[question] IN
        /\ sql' = r.sql
        /\ explanation' = r.explanation
    /\ pc' = "returned"
    /\ UNCHANGED <<question, returned, result, other, chart, chart_other,
                   query_history, calls>>

NextGenerate == GenerateSql

SpecGenerate == InitGenerate /\ [][NextGenerate]_vars

(***************************************************************************)
(* SpecTemplates: a session of generate_sql calls on arbitrary questions,  *)
(* collecting the SQL texts returned with the ticker abstracted away.      *)
(***************************************************************************)
Tickers == {"AAPL", "MSFT", "NVDA"}

TickerHole == "{ticker}"

\* the SQL text with its interpolated ticker replaced by a hole
AbstractTicker(text) ==
    IF \E t \in Tickers : text = MovingAverageSql(t)
        THEN MovingAverageSql(TickerHole)
    ELSE IF \E t \in Tickers : text = AveragePriceSql(t)
        THEN AveragePriceSql(TickerHole)
    ELSE text

InitTemplates ==
    /\ pc = "session"
    /\ question = ""
    /\ InitCommon

\* AbstractTicker of generate_sql's SQL, tabulated over the questions
AbstractSqlTable == [q \in Questions |-> AbstractTicker(GenerateSqlTable[q].sql)]

GenerateSqlAny ==
    /\ pc = "session"
    /\ \E q \in Questions :
        returned' = returned \cup {AbstractSqlTable[q]}
    /\ UNCHANGED <<pc, question, sql, explanation, result, other, chart,
                   chart_other, query_history, calls>>

NextTemplates == GenerateSqlAny

SpecTemplates == InitTemplates /\ [][NextTemplates]_vars

(***************************************************************************)
(* Claims about generate_sql                                               *)
(***************************************************************************)
SevenTemplates ==
    {MovingAverageSql(TickerHole), DailyReturnsSql, RiskMetricsSql,
     VolatilitySql, AveragePriceSql(TickerHole), RecentSql, DefaultSql}

\* C1: with the ticker abstracted away, every SQL text generate_sql returns
\* is one of seven templates (moving averages, daily returns, risk metrics,
\* volatility, average price, recent data, default sample); the set of
\* texts returned never has more than seven members.
C1_SevenTemplates ==
    /\ returned \subseteq SevenTemplates
    /\ Cardinality(returned) <= 7

\* C1 witness: a session in which all seven templates have been returned.
C1_Witness == Cardinality(returned) = 7 /\ returned = SevenTemplates

\* every SQL text written in generate_sql, tickers filled in from Tickers
HardcodedSql ==
    {MovingAverageSql(t) : t \in Tickers} \cup {AveragePriceSql(t) : t \in Tickers}
    \cup {DailyReturnsSql, RiskMetricsSql, VolatilitySql, AveragePriceAllSql,
          RecentSql, DefaultSql}

\* words of the vocabulary that occur, in any letter case, in no SQL text
\* of the source
ForeignWords ==
    {w \in Vocabulary : \A t \in HardcodedSql : ~Contains(Lower(t), Lower(w))}

\* C2: the SQL returned is a template with no parameter, or the
\* moving-average or average-price template with exactly one parameter whose
\* value is 'AAPL', 'MSFT' or 'NVDA'; a word of the question that is not
\* already part of a template never shows up in the SQL, in any letter case.
C2_OneTickerParameter ==
    pc = "returned" =>
        /\ \/ sql \in {DailyReturnsSql, RiskMetricsSql, VolatilitySql,
                        AveragePriceAllSql, RecentSql, DefaultSql}
           \/ \E t \in Tickers : sql = MovingAverageSql(t)
           \/ \E t \in Tickers : sql = AveragePriceSql(t)
        /\ \A w \in ForeignWords :
              Contains(question, w) => ~Contains(Lower(sql), Lower(w))

\* C2 witness: an average-price question carrying SQL-looking text got the
\* single-ticker template with the default symbol.
C2_Witness ==
    /\ pc = "returned"
    /\ Contains(question, "'; DROP TABLE x --")
    /\ Contains(question, "AVG")
    /\ sql = AveragePriceSql("AAPL")

Keywords ==
    {"moving average", "trend", "return", "daily change", "risk", "drawdown",
     "worst", "volatile", "volatility", "average", "avg", "latest", "recent"}

HasKeyword(q) == \E k \in Keywords : Contains(q, k)

\* C3: a question whose lowercased text contains no keyword yields exactly
\* ("SELECT * FROM stock_prices LIMIT 5", "Sample data"), a question with a
\* keyword never yields that default, and every call returns a pair.
C3_SingleDefault ==
    /\ pc = "call" => ENABLED GenerateSql
    /\ pc = "returned" =>
        /\ Len(sql) > 0 /\ Len(explanation) > 0
        /\ ~HasKeyword(Lower(question)) <=>
               (sql = "SELECT * FROM stock_prices LIMIT 5"
                /\ explanation = "Sample data")
        /\ HasKeyword(Lower(question)) =>
               sql # "SELECT * FROM stock_prices LIMIT 5"

\* C3 witness: a non-empty question without any keyword got the default.
C3_Witness ==
    /\ pc = "returned"
    /\ Len(question) > 0
    /\ ~HasKeyword(Lower(question))
    /\ sql = "SELECT * FROM stock_prices LIMIT 5"
    /\ explanation = "Sample data"

AnyOf(q, keys) == \E k \in keys : Contains(q, k)

\* the SQL texts of the first keyword group, in the claimed order, that q matches
FirstMatch(q) ==
    IF AnyOf(q, {"moving average", "trend"})
        THEN {MovingAverageSql(t) : t \in Tickers}
    ELSE IF AnyOf(q, {"return", "daily change"}) THEN {DailyReturnsSql}
    ELSE IF AnyOf(q, {"risk", "drawdown", "worst"}) THEN {RiskMetricsSql}
    ELSE IF AnyOf(q, {"volatile", "volatility"}) THEN {VolatilitySql}
    ELSE IF AnyOf(q, {"average", "avg"})
        THEN {AveragePriceSql(t) : t \in Tickers} \cup {AveragePriceAllSql}
    ELSE IF AnyOf(q, {"latest", "recent"}) THEN {RecentSql}
    ELSE {DefaultSql}

\* C6: the template returned is that of the first keyword group the
\* lowercased question matches, in the order moving average > daily returns
\* > risk > volatility > average price > recent > default; a question with
\* 'moving average' gets the moving-average template, never average price.
C6_FirstMatchOrder ==
    pc = "returned" =>
        /\ sql \in FirstMatch(Lower(question))
        /\ Contains(Lower(question), "moving average") =>
              /\ \E t \in Tickers : sql = MovingAverageSql(t)
              /\ \A t \in Tickers : sql # AveragePriceSql(t)
              /\ sql # AveragePriceAllSql

\* C6 witness: a question matching the moving-average, daily-returns and
\* average-price groups at once got the moving-average template.
C6_Witness ==
    /\ pc = "returned"
    /\ Contains(Lower(question), "moving average")
    /\ Contains(Lower(question), "return")
    /\ Contains(Lower(question), "average")
    /\ \E t \in Tickers : sql = MovingAverageSql(t)

TickerNames == {"apple", "aapl", "microsoft", "msft", "nvidia", "nvda"}

\* q is an average-price question: 'average' or 'avg', no earlier keyword
IsAveragePriceQuestion(q) ==
    /\ AnyOf(q, {"average", "avg"})
    /\ ~AnyOf(q, {"moving average", "trend", "return", "daily change", "risk",
                  "drawdown", "worst", "volatile", "volatility"})

\* C7: an average-price question naming no ticker gets the all-stocks
\* template and explanation; the single-ticker template is returned only
\* when the question names a ticker.
C7_AllStocksWhenNoTicker ==
    pc = "returned" /\ IsAveragePriceQuestion(Lower(question)) =>
        /\ ~AnyOf(Lower(question), TickerNames) =>
              /\ sql = "SELECT ticker, AVG(close) as avg_price FROM stock_prices GROUP BY ticker"
              /\ explanation = "Average closing price for all stocks"
        /\ (\E t \in Tickers : sql = AveragePriceSql(t)) =>
              AnyOf(Lower(question), TickerNames)

(***************************************************************************)
(* NL2SQLDemo.visualize                                                    *)
(*                                                                         *)
(* A DataFrame is its set of column names, its row count and `plottable`:  *)
(* whether its values and the images/ directory let pandas and matplotlib  *)
(* finish (to_datetime, plot, savefig).  A chart is the title of the       *)
(* layout drawn ("none": an empty figure) and whether visualize raised.    *)
(***************************************************************************)
Raised == [layout |-> "none", raised |-> TRUE]

Drawn(title) == [layout |-> title, raised |-> FALSE]

\* Variant: the time-series layouts start at 5 rows instead of 6.
visualize_from_five_rows(df) ==
    IF ~df.plottable THEN Raised
    ELSE IF "date" \in df.columns /\ df.rows >= 5 THEN
        IF "ma_7" \in df.columns THEN
            IF {"close", "ma_30"} \subseteq df.columns
            THEN Drawn("Moving Average Analysis")
            ELSE Raised
        ELSE IF "return_pct" \in df.columns THEN Drawn("Daily Returns (%)")
        ELSE
            IF "close" \in df.columns
            THEN Drawn("Stock Price Trends")
            ELSE Raised
    ELSE IF "ticker" \in df.columns /\ df.rows < 5 THEN
        LET metrics == df.columns \ {"ticker"} IN
        IF metrics # {} THEN Drawn("Stock Comparison") ELSE Drawn("none")
    ELSE Drawn("none")

visualize(df) ==
    IF ~df.plottable THEN Raised
    ELSE IF "date" \in df.columns /\ df.rows > 5 THEN
        IF "ma_7" \in df.columns THEN
            \* result['close'], result['ma_30']: KeyError when absent
            IF {"close", "ma_30"} \subseteq df.columns
            THEN Drawn("Moving Average Analysis")
            ELSE Raised
        ELSE IF "return_pct" \in df.columns THEN Drawn("Daily Returns (%)")
        ELSE
            \* data['close'] for each ticker, or once for 'Price'
            IF "close" \in df.columns
            THEN Drawn("Stock Price Trends")
            ELSE Raised
    ELSE IF "ticker" \in df.columns /\ df.rows <= 5 THEN
        LET metrics == df.columns \ {"ticker"} IN
        IF metrics # {} THEN Drawn("Stock Comparison") ELSE Drawn("none")
    ELSE Drawn("none")

(***************************************************************************)
(* SpecVisualize: visualize on two arbitrary DataFrames with at least one   *)
(* row and one column, and with the same columns                           *)
(***************************************************************************)
MaxRows == 6

ColumnNames ==
    {"date", "ticker", "close", "ma_7", "ma_30", "return_pct", "avg_price"}

InitVisualize ==
    /\ pc = "call"
    /\ question = ""
    /\ sql = ""
    /\ explanation = ""
    /\ returned = {}
    /\ \E cols \in (SUBSET ColumnNames) \ {{}} :
        /\ result \in [columns : {cols}, rows : 1..MaxRows, plottable : BOOLEAN]
        /\ other \in [columns : {cols}, rows : 1..MaxRows, plottable : BOOLEAN]
    /\ chart = NoChart
    /\ chart_other = NoChart
    /\ query_history = <<>>
    /\ calls = <<>>

Visualize ==
    /\ pc = "call"
    /\ chart' = visualize(result)
    /\ pc' = "second call"
    /\ UNCHANGED <<question, sql, explanation, returned, result, other,
                   chart_other, query_history, calls>>

VisualizeOther ==
    /\ pc = "second call"
    /\ chart_other' = visualize(other)
    /\ pc' = "drawn"
    /\ UNCHANGED <<question, sql, explanation, returned, result, other,
                   chart, query_history, calls>>

NextVisualize == Visualize \/ VisualizeOther

SpecVisualize == InitVisualize /\ [][NextVisualize]_vars

(***************************************************************************)
(* Claims about visualize                                                  *)
(***************************************************************************)
BothReturned == pc = "drawn" /\ ~chart.raised /\ ~chart_other.raised

\* C4 as stated: every non-empty result gets exactly one canned layout, and
\* two results with the same set of columns get the same layout.
C4_LayoutByColumnsOnly ==
    BothReturned =>
        /\ chart.layout # "none"
        /\ chart_other.layout # "none"
        /\ chart.layout = chart_other.layout

FourLayouts ==
    {"Moving Average Analysis", "Daily Returns (%)", "Stock Price Trends",
     "Stock Comparison"}

\* some layout applies to a result with these columns and this many rows
LayoutApplies(df) ==
    \/ "date" \in df.columns /\ df.rows > 5
    \/ "ticker" \in df.columns /\ df.rows <= 5 /\ df.columns # {"ticker"}

\* C4 amended: when visualize returns, it has drawn at most one of four
\* canned layouts, none exactly when the result has neither a 'date' column
\* with more than 5 rows nor a 'ticker' column, at most 5 rows and a further
\* column; two results with the same columns that are both above or both
\* not above 5 rows get the same layout.
C4_LayoutByColumnsAndRows ==
    BothReturned =>
        /\ chart.layout \in FourLayouts \cup {"none"}
        /\ chart_other.layout \in FourLayouts \cup {"none"}
        /\ chart.layout = "none" <=> ~LayoutApplies(result)
        /\ chart_other.layout = "none" <=> ~LayoutApplies(other)
        /\ (result.rows > 5 <=> other.rows > 5) =>
               chart.layout = chart_other.layout

\* C4 witness: two results with the same columns, one above and one not
\* above 5 rows, were drawn with two different canned layouts.
C4_Witness ==
    /\ BothReturned
    /\ result.columns = other.columns
    /\ chart.layout = "Stock Price Trends"
    /\ chart_other.layout = "Stock Comparison"

(***************************************************************************)
(* NL2SQLDemo.execute, against the stock_prices table that                 *)
(* data_loader.create_database writes                                      *)
(***************************************************************************)
\* columns of stock_prices: yfinance's history() columns and the added
\* ticker, lowercased with '_' for ' ' by fetch_stock_data
TableColumns ==
    {"date", "open", "high", "low", "close", "volume", "dividends",
     "stock_splits", "ticker"}

\* the result columns of each SQL text of generate_sql
ResultColumns(text) ==
    IF \E t \in Tickers : text = MovingAverageSql(t)
        THEN {"date", "close", "ma_7", "ma_30"}
    ELSE IF text = DailyReturnsSql THEN {"ticker", "date", "close", "return_pct"}
    ELSE IF text = RiskMetricsSql
        THEN {"ticker", "worst_day_pct", "avg_loss_pct", "down_days_pct"}
    ELSE IF text = VolatilitySql THEN {"ticker", "avg_volatility_pct"}
    ELSE IF \E t \in Tickers : text = AveragePriceSql(t) THEN {"avg_price"}
    ELSE IF text = AveragePriceAllSql THEN {"ticker", "avg_price"}
    ELSE TableColumns

\* row counts a result may have: around the thresholds 0 and 5 of ask and
\* visualize
RowCounts == {0, 1, 5, 6}

\* row counts the SQL text allows: an aggregate without GROUP BY has one
\* row, LIMIT n at most n
ResultRows(text) ==
    IF \E t \in Tickers : text = AveragePriceSql(t) THEN {1}
    ELSE IF text = DefaultSql THEN {n \in RowCounts : n <= 5}
    ELSE IF text = RecentSql THEN {n \in RowCounts : n <= 10}
    ELSE IF text = DailyReturnsSql THEN {n \in RowCounts : n <= 30}
    ELSE RowCounts

\* what execute(text) may do: raise (no database, no table), or return a
\* DataFrame
execute(text) ==
    {[raised |-> TRUE, df |-> NoResult]}
    \cup {[raised |-> FALSE,
           df |-> [columns |-> ResultColumns(text), rows |-> n, plottable |-> p]] :
             n \in ResultRows(text), p \in BOOLEAN}

(***************************************************************************)
(* The demo script, demo.py                                                *)
(***************************************************************************)
DemoScript ==
    << [at |-> "line 10", show_viz |-> FALSE,
        question |-> "What is the average price of Apple stock?"],
       [at |-> "line 13", show_viz |-> FALSE,
        question |-> "Show me the 7-day and 30-day moving averages for Apple"],
       [at |-> "line 16", show_viz |-> TRUE,
        question |-> "Which stock is most volatile?"],
       [at |-> "line 19", show_viz |-> TRUE,
        question |-> "Show me risk metrics for all stocks"],
       [at |-> "line 22", show_viz |-> TRUE,
        question |-> "What are the daily returns for the last 30 days?"] >>

\* the questions put to ask: those of the demo script, one for the recent
\* data and one without keyword
AskQuestions ==
    {DemoScript[i].question : i \in 1..Len(DemoScript)}
    \cup {"Latest prices", "Hello"}

\* generate_sql tabulated over the questions put to ask, computed once
AskSqlTable == [q \in AskQuestions |-> generate_sql(q)]

(***************************************************************************)
(* NL2SQLDemo.ask                                                          *)
(*                                                                         *)
(* ask(history, chart, question, show_viz, ex): the query_history and the  *)
(* chart after the call, and how the call ended, where ex is what execute  *)
(* did.                                                                    *)
(***************************************************************************)
HistoryEntry(q, text, n) == [question |-> q, sql |-> text, rows |-> n]

\* Variant: the history entry is written before execute is called.
ask_record_first(history, saved, q, show_viz, ex) ==
    LET generated == AskSqlTable[q]
        recorded == Append(history, HistoryEntry(q, generated.sql, ex.df.rows))
    IN
    IF ex.raised THEN
        [query_history |-> recorded, chart |-> saved, outcome |-> "execute raised"]
    ELSE IF show_viz /\ ex.df.rows > 0 THEN
        LET drawn == visualize(ex.df) IN
        [query_history |-> recorded,
         chart |-> IF drawn.raised THEN saved ELSE drawn,
         outcome |-> IF drawn.raised THEN "visualize raised" ELSE "returned"]
    ELSE
        [query_history |-> recorded, chart |-> saved, outcome |-> "returned"]

ask(history, saved, q, show_viz, ex) ==
    LET generated == AskSqlTable[q] IN
    IF ex.raised THEN
        [query_history |-> history, chart |-> saved, outcome |-> "execute raised"]
    ELSE
        LET recorded ==
                Append(history, HistoryEntry(q, generated.sql, ex.df.rows))
        IN
        IF show_viz /\ ex.df.rows > 0 THEN
            LET drawn == visualize(ex.df) IN
            [query_history |-> recorded,
             chart |-> IF drawn.raised THEN saved ELSE drawn,
             outcome |-> IF drawn.raised THEN "visualize raised" ELSE "returned"]
        ELSE
            [query_history |-> recorded, chart |-> saved, outcome |-> "returned"]

\* one call demo.ask(q, show_viz) and its entry in the log of calls
AskCall(q, show_viz) ==
    LET generated == AskSqlTable[q] IN
    \E ex \in execute(generated.sql) :
        LET after == ask(query_history, chart, q, show_viz, ex) IN
        /\ question' = q
        /\ sql' = generated.sql
        /\ explanation' = generated.explanation
        /\ query_history' = after.query_history
        /\ chart' = after.chart
        /\ calls' = Append(calls, [question |-> q, outcome |-> after.outcome,
                                   rows |-> ex.df.rows])

\* the script starts at its first ask, on a fresh object
InitDemo ==
    /\ pc = "line 10"
    /\ question = ""
    /\ InitCommon

\* the i-th ask of the script; an exception ends the script
DemoAsk(i) ==
    /\ pc = DemoScript[i].at
    /\ AskCall(DemoScript[i].question, DemoScript[i].show_viz)
    /\ pc' = IF calls'[Len(calls')].outcome # "returned" THEN "aborted"
             ELSE IF i < Len(DemoScript) THEN DemoScript[i + 1].at
             ELSE "done"
    /\ UNCHANGED <<returned, result, other, chart_other>>

NextDemo == \E i \in 1..Len(DemoScript) : DemoAsk(i)

SpecDemo == InitDemo /\ [][NextDemo]_vars

(***************************************************************************)
(* Spec: any caller asking questions of one NL2SQLDemo object              *)
(***************************************************************************)
MaxCalls == 2

Init ==
    /\ pc = "idle"
    /\ question = ""
    /\ InitCommon

Ask ==
    /\ pc = "idle"
    /\ Len(calls) < MaxCalls
    /\ \E q \in AskQuestions, show_viz \in BOOLEAN : AskCall(q, show_viz)
    /\ UNCHANGED <<pc, returned, result, other, chart_other>>

Next == Ask

Spec == Init /\ [][Next]_vars

(***************************************************************************)
(* Claims about ask and the demo script                                    *)
(***************************************************************************)
ExpectedDemoSql ==
    << AveragePriceSql("AAPL"), MovingAverageSql("AAPL"), VolatilitySql,
       RiskMetricsSql, DailyReturnsSql >>

\* C5: each question of the demo script selects the template its heading
\* names (average price for AAPL, moving averages for AAPL, volatility, risk
\* metrics, daily returns), and once the five ask calls have succeeded
\* query_history holds the five questions in script order.
C5_DemoTemplates ==
    /\ \A i \in 1..Len(DemoScript) :
          question = DemoScript[i].question => sql = ExpectedDemoSql[i]
    /\ \A i \in 1..Len(query_history) :
          /\ query_history[i].question = DemoScript[i].question
          /\ query_history[i].sql = ExpectedDemoSql[i]
    /\ pc = "done" =>
          /\ Len(query_history) = 5
          /\ [i \in 1..5 |-> query_history[i].question] =
                << "What is the average price of Apple stock?",
                   "Show me the 7-day and 30-day moving averages for Apple",
                   "Which stock is most volatile?",
                   "Show me risk metrics for all stocks",
                   "What are the daily returns for the last 30 days?" >>

\* C5 witness: the script ran to its end.
C5_Witness ==
    /\ pc = "done"
    /\ Len(query_history) = 5
    /\ sql = DailyReturnsSql

ExecuteReturned(c) == c.outcome # "execute raised"

\* the history the calls made so far must have left
ExpectedHistory ==
    LET done == SelectSeq(calls, ExecuteReturned) IN
    [i \in 1..Len(done) |->
        [question |-> done[i].question,
         sql |-> AskSqlTable[done[i].question].sql,
         rows |-> done[i].rows]]

IsPrefix(s, t) == Len(s) <= Len(t) /\ SubSeq(t, 1, Len(s)) = s

\* C8: query_history has one entry per ask whose execute returned, in call
\* order, with that call's question, SQL and row count; a step never
\* changes or removes an entry, and an ask whose execute raises leaves
\* query_history as it was.
C8_HistoryAppendOnly ==
    /\ [](query_history = ExpectedHistory)
    /\ [][/\ IsPrefix(query_history, query_history')
          /\ Len(calls') = Len(calls) + 1
          /\ calls'[Len(calls')].outcome = "execute raised"
                => query_history' = query_history
          /\ calls'[Len(calls')].outcome # "execute raised"
                => Len(query_history') = Len(query_history) + 1]_vars

\* C8 witness: a first ask was recorded although its chart failed, and a
\* second ask whose execute raised left the history at that one entry.
C8_Witness ==
    /\ Len(calls) = 2
    /\ calls[1].outcome = "visualize raised"
    /\ calls[2].outcome = "execute raised"
    /\ Len(query_history) = 1
    /\ query_history[1].question = calls[1].question

====
